---- MODULE Spec2Model ----
(***************************************************************************)
(* Model of os161/kern/thread/synch.c: semaphore, lock and condition       *)
(* variable on a single CPU.  One thread runs at a time; it loses the CPU  *)
(* only by sleeping (thread_sleep) or, when the interrupt level is 0, by   *)
(* a timer preemption.  Each C function is a frame on the calling thread's *)
(* stack; a frame's pc is the source line of the next statement to run.    *)
(***************************************************************************)
EXTENDS Integers, Sequences, FiniteSets, TLC

NThreads == 3
MaxC0 == 1
MaxV == 2

SplHigh == 15
NULL == 0
NoSpl == -1

Threads == 1..NThreads

VARIABLES
  count,          \* sem->count
  semAlive,       \* FALSE once sem_destroy has freed the semaphore
  flag,           \* lock->flag
  currentThread,  \* lock->currentThread
  lockAlive,      \* FALSE once lock_destroy has freed the lock
  cvAlive,        \* FALSE once cv_destroy has freed the condition variable
  curspl,         \* current interrupt priority level
  in_interrupt,   \* 1 while an interrupt handler runs
  curthread,      \* the thread whose stack the CPU is running on
  idle,           \* TRUE while the CPU waits in the scheduler with nothing to run
  tstate,         \* per thread: "run", "sleep", "ready" (woken), "yield" (preempted)
  sleepers,       \* per wait channel: the threads asleep on it, in arrival order
  stack,          \* per thread: sequence of frames [fn, pc, spl]
  panic,          \* "" or the function whose assertion failed
  holding,        \* threads that returned from lock_acquire and have not called lock_release since
  wokenLock,      \* threads woken by lock_release that have not re-checked lock->flag yet
  c0, nP, nV      \* initial count, completed P calls, completed V calls

vars == <<count, semAlive, flag, currentThread, lockAlive, cvAlive, curspl,
          in_interrupt, curthread, idle, tstate, sleepers, stack, panic,
          holding, wokenLock, c0, nP, nV>>

semVars == <<count, semAlive>>
lockVars == <<flag, currentThread>>
cpuVars == <<curthread, idle, tstate>>
aliveVars == <<lockAlive, cvAlive>>
ghostVars == <<holding, wokenLock, nP, nV, c0>>

----------------------------------------------------------------------------
(* Frames and statement helpers *)

Frame(fn, line) == [fn |-> fn, pc |-> line, spl |-> NoSpl]

Depth(t) == Len(stack[t])
Top == stack[curthread][Len(stack[curthread])]

Running == panic = "" /\ (~idle \/ in_interrupt = 1)
At(fn, line) == Running /\ stack[curthread] # <<>> /\ Top.fn = fn /\ Top.pc = line

Goto(line) == stack' = [stack EXCEPT ![curthread][Len(stack[curthread])].pc = line]
Push(fn, line) == stack' = [stack EXCEPT ![curthread] = Append(@, Frame(fn, line))]
Pop == stack' = [stack EXCEPT ![curthread] = SubSeq(@, 1, Len(@) - 1)]
\* the caller moves to line `ret` and the callee's frame is pushed
CallFrom(ret, fn, line) ==
  stack' = [stack EXCEPT ![curthread] =
              Append([@ EXCEPT ![Len(@)].pc = ret], Frame(fn, line))]

EntryLine(fn) ==
  CASE fn = "P" -> 74
    [] fn = "V" -> 90
    [] fn = "sem_destroy" -> 45
    [] fn = "lock_acquire" -> 136
    [] fn = "lock_release" -> 155
    [] fn = "cv_wait" -> 217
    [] fn = "cv_signal" -> 234
    [] fn = "cv_broadcast" -> 249
    [] fn = "lock_destroy" -> 126
    [] fn = "cv_destroy" -> 207

\* spl = splhigh(): remember the old level in the frame, raise to the maximum
splhigh(next) ==
  /\ curspl' = SplHigh
  /\ stack' = [stack EXCEPT ![curthread][Len(stack[curthread])] =
                 [@ EXCEPT !.spl = curspl, !.pc = next]]

\* assert(in_interrupt == 0) inside function fn
assert_not_in_interrupt(fn, next) ==
  IF in_interrupt = 0
    THEN Goto(next) /\ panic' = panic
    ELSE panic' = fn /\ UNCHANGED stack

----------------------------------------------------------------------------
(* Wait-queue facility and scheduler *)

Channels == {"sem", "lock", "cv"}

Runnable == {"ready", "yield"}
\* level in force when a switched-out thread gets the CPU back: a sleeper
\* resumes inside its interrupt-disabled section, a preempted thread at 0
ResumeSpl(st) == IF st = "yield" THEN 0 ELSE SplHigh

SleepingOn(addr) == {sleepers[addr][i] : i \in 1..Len(sleepers[addr])}
thread_hassleepers(addr) == IF sleepers[addr] # <<>> THEN 1 ELSE 0

\* the CPU leaves curthread, whose new state is in ts
mi_switch(ts) ==
  IF \E u \in Threads : ts[u] \in Runnable
    THEN \E u \in Threads :
           /\ ts[u] \in Runnable
           /\ curthread' = u
           /\ tstate' = [ts EXCEPT ![u] = "run"]
           /\ curspl' = ResumeSpl(ts[u])
           /\ idle' = FALSE
    ELSE /\ curthread' = curthread
         /\ tstate' = ts
         /\ curspl' = 0
         /\ idle' = TRUE

\* thread_sleep(addr): queue the caller on addr and give up the CPU; the
\* caller continues at line `resume` once woken and scheduled
thread_sleep(addr, resume) ==
  /\ sleepers' = [sleepers EXCEPT ![addr] = Append(@, curthread)]
  /\ Goto(resume)
  /\ mi_switch([tstate EXCEPT ![curthread] = "sleep"])

\* thread_wakeup(addr): every thread sleeping on addr becomes runnable
thread_wakeup(addr) ==
  /\ sleepers' = [sleepers EXCEPT ![addr] = <<>>]
  /\ tstate' = [t \in Threads |->
                  IF t \in SleepingOn(addr) THEN "ready" ELSE tstate[t]]

\* thread_single_wakeup(addr): the first thread sleeping on addr becomes runnable
thread_single_wakeup(addr) ==
  IF sleepers[addr] = <<>>
    THEN UNCHANGED <<sleepers, tstate>>
    ELSE /\ sleepers' = [sleepers EXCEPT ![addr] = Tail(@)]
         /\ tstate' = [tstate EXCEPT ![Head(sleepers[addr])] = "ready"]

\* Interrupts are taken at level 0.  One arriving between a call and the
\* callee's splhigh() is taken as arriving before the call: the callee has
\* touched nothing yet.
InterruptsOn ==
  /\ curspl = 0 /\ in_interrupt = 0
  /\ IF stack[curthread] = <<>> THEN TRUE ELSE Top.spl # NoSpl

\* timer interrupt: hardclock yields the CPU to another runnable thread
Preempt ==
  /\ panic = "" /\ ~idle /\ InterruptsOn
  /\ \E u \in Threads \ {curthread} :
       /\ tstate[u] \in Runnable
       /\ curthread' = u
       /\ tstate' = [tstate EXCEPT ![curthread] = "yield", ![u] = "run"]
       /\ curspl' = ResumeSpl(tstate[u])
  /\ UNCHANGED <<semVars, lockVars, aliveVars, in_interrupt, idle, sleepers, stack, panic, ghostVars>>

\* the idle CPU picks up a thread that an interrupt handler made runnable
Dispatch ==
  /\ panic = "" /\ idle /\ in_interrupt = 0
  /\ \E u \in Threads :
       /\ tstate[u] \in Runnable
       /\ curthread' = u
       /\ tstate' = [tstate EXCEPT ![u] = "run"]
       /\ curspl' = ResumeSpl(tstate[u])
  /\ idle' = FALSE
  /\ UNCHANGED <<semVars, lockVars, aliveVars, in_interrupt, sleepers, stack, panic, ghostVars>>

----------------------------------------------------------------------------
(* Semaphore *)

\* the initial count ignored
sem_create_zero(initial_count) ==
  /\ initial_count >= 0
  /\ count = 0
  /\ semAlive = TRUE

\* sem_create(name, initial_count): assert(initial_count >= 0); count = initial_count
sem_create(initial_count) ==
  /\ initial_count >= 0
  /\ count = initial_count
  /\ semAlive = TRUE

sem_destroy_45 ==
  /\ At("sem_destroy", 45)
  /\ splhigh(46)
  /\ UNCHANGED <<semVars, lockVars, aliveVars, in_interrupt, cpuVars, sleepers, panic, ghostVars>>

\* assert(thread_hassleepers(sem)==0)
sem_destroy_46 ==
  /\ At("sem_destroy", 46)
  /\ IF thread_hassleepers("sem") = 0
       THEN Goto(47) /\ panic' = panic
       ELSE panic' = "sem_destroy" /\ UNCHANGED stack
  /\ UNCHANGED <<semVars, lockVars, aliveVars, curspl, in_interrupt, cpuVars, sleepers, ghostVars>>

sem_destroy_47 ==
  /\ At("sem_destroy", 47)
  /\ curspl' = Top.spl
  /\ Goto(58)
  /\ UNCHANGED <<semVars, lockVars, aliveVars, in_interrupt, cpuVars, sleepers, panic, ghostVars>>

\* kfree(sem->name); kfree(sem); return
sem_destroy_58 ==
  /\ At("sem_destroy", 58)
  /\ semAlive' = FALSE
  /\ Pop
  /\ UNCHANGED <<count, lockVars, aliveVars, curspl, in_interrupt, cpuVars, sleepers, panic, ghostVars>>

P_74 ==
  /\ At("P", 74)
  /\ assert_not_in_interrupt("P", 76)
  /\ UNCHANGED <<semVars, lockVars, aliveVars, curspl, in_interrupt, cpuVars, sleepers, ghostVars>>

P_76 ==
  /\ At("P", 76)
  /\ splhigh(77)
  /\ UNCHANGED <<semVars, lockVars, aliveVars, in_interrupt, cpuVars, sleepers, panic, ghostVars>>

\* the wait loop left out
P_77_nowait ==
  /\ At("P", 77)
  /\ Goto(80)
  /\ UNCHANGED <<semVars, lockVars, aliveVars, curspl, in_interrupt, cpuVars, sleepers, panic, ghostVars>>

\* while (sem->count==0) thread_sleep(sem);
P_77 ==
  /\ At("P", 77)
  /\ IF count = 0
       THEN thread_sleep("sem", 77)
       ELSE Goto(80) /\ UNCHANGED <<cpuVars, curspl, sleepers>>
  /\ UNCHANGED <<semVars, lockVars, aliveVars, in_interrupt, panic, ghostVars>>

\* the decrement forgotten
P_80_nodec ==
  /\ At("P", 80)
  /\ IF count > 0
       THEN Goto(82) /\ UNCHANGED <<count, panic>>
       ELSE panic' = "P" /\ UNCHANGED <<count, stack>>
  /\ UNCHANGED <<semAlive, lockVars, aliveVars, curspl, in_interrupt, cpuVars, sleepers, ghostVars>>

\* assert(sem->count>0); sem->count--;
P_80 ==
  /\ At("P", 80)
  /\ IF count > 0
       THEN count' = count - 1 /\ Goto(82) /\ panic' = panic
       ELSE panic' = "P" /\ UNCHANGED <<count, stack>>
  /\ UNCHANGED <<semAlive, lockVars, aliveVars, curspl, in_interrupt, cpuVars, sleepers, ghostVars>>

\* splx(spl); return
P_82 ==
  /\ At("P", 82)
  /\ curspl' = Top.spl
  /\ Pop
  /\ nP' = nP + 1
  /\ UNCHANGED <<semVars, lockVars, aliveVars, in_interrupt, cpuVars, sleepers, panic, holding, wokenLock, nV, c0>>

V_90 ==
  /\ At("V", 90)
  /\ splhigh(91)
  /\ UNCHANGED <<semVars, lockVars, aliveVars, in_interrupt, cpuVars, sleepers, panic, ghostVars>>

\* the increment left out
V_91_noinc ==
  /\ At("V", 91)
  /\ Goto(93)
  /\ UNCHANGED <<semVars, lockVars, aliveVars, curspl, in_interrupt, cpuVars, sleepers, panic, ghostVars>>

\* sem->count++; assert(sem->count>0);
V_91 ==
  /\ At("V", 91)
  /\ count' = count + 1
  /\ IF count + 1 > 0
       THEN Goto(93) /\ panic' = panic
       ELSE panic' = "V" /\ UNCHANGED stack
  /\ UNCHANGED <<semAlive, lockVars, aliveVars, curspl, in_interrupt, cpuVars, sleepers, ghostVars>>

\* the wake-one primitive used instead of thread_wakeup
V_93_single ==
  /\ At("V", 93)
  /\ thread_single_wakeup("sem")
  /\ Goto(94)
  /\ UNCHANGED <<semVars, lockVars, aliveVars, curspl, in_interrupt, curthread, idle, panic, ghostVars>>

\* thread_wakeup(sem);
V_93 ==
  /\ At("V", 93)
  /\ thread_wakeup("sem")
  /\ Goto(94)
  /\ UNCHANGED <<semVars, lockVars, aliveVars, curspl, in_interrupt, curthread, idle, panic, ghostVars>>

\* splx(spl); return
V_94 ==
  /\ At("V", 94)
  /\ curspl' = Top.spl
  /\ Pop
  /\ nV' = nV + 1
  /\ UNCHANGED <<semVars, lockVars, aliveVars, in_interrupt, cpuVars, sleepers, panic, holding, wokenLock, nP, c0>>

----------------------------------------------------------------------------
(* Lock *)

\* lock_create(name): flag = 0; currentThread = NULL
lock_create ==
  /\ flag = 0
  /\ currentThread = NULL
  /\ lockAlive = TRUE

\* assert(lock != NULL);
lock_destroy_126 ==
  /\ At("lock_destroy", 126)
  /\ Goto(128)
  /\ UNCHANGED <<semVars, lockVars, aliveVars, curspl, in_interrupt, cpuVars, sleepers, panic, ghostVars>>

\* kfree(lock->name); kfree(lock); return -- no look at flag or at the sleepers
lock_destroy_128 ==
  /\ At("lock_destroy", 128)
  /\ lockAlive' = FALSE
  /\ Pop
  /\ UNCHANGED <<semVars, lockVars, cvAlive, curspl, in_interrupt, cpuVars, sleepers, panic, ghostVars>>

lock_do_i_hold_always(t) == 1

lock_do_i_hold(t) == IF currentThread = t THEN 1 ELSE 0

lock_acquire_136 ==
  /\ At("lock_acquire", 136)
  /\ splhigh(138)
  /\ UNCHANGED <<semVars, lockVars, aliveVars, in_interrupt, cpuVars, sleepers, panic, ghostVars>>

lock_acquire_138 ==
  /\ At("lock_acquire", 138)
  /\ assert_not_in_interrupt("lock_acquire", 141)
  /\ UNCHANGED <<semVars, lockVars, aliveVars, curspl, in_interrupt, cpuVars, sleepers, ghostVars>>

\* the wait loop left out
lock_acquire_141_nowait ==
  /\ At("lock_acquire", 141)
  /\ Goto(145)
  /\ UNCHANGED <<semVars, lockVars, aliveVars, curspl, in_interrupt, cpuVars, sleepers, panic, ghostVars>>

\* while (lock->flag != 0) thread_sleep(lock);
lock_acquire_141 ==
  /\ At("lock_acquire", 141)
  /\ IF flag # 0
       THEN thread_sleep("lock", 141)
       ELSE Goto(145) /\ UNCHANGED <<cpuVars, curspl, sleepers>>
  /\ wokenLock' = wokenLock \ {curthread}
  /\ UNCHANGED <<semVars, lockVars, aliveVars, in_interrupt, panic, holding, nP, nV, c0>>

\* lock->flag = 1; lock->currentThread = curthread;
lock_acquire_145 ==
  /\ At("lock_acquire", 145)
  /\ flag' = 1
  /\ currentThread' = curthread
  /\ Goto(148)
  /\ UNCHANGED <<semVars, aliveVars, curspl, in_interrupt, cpuVars, sleepers, panic, ghostVars>>

\* splx(spl); return
lock_acquire_148 ==
  /\ At("lock_acquire", 148)
  /\ curspl' = Top.spl
  /\ Pop
  /\ holding' = holding \cup {curthread}
  /\ UNCHANGED <<semVars, lockVars, aliveVars, in_interrupt, cpuVars, sleepers, panic, wokenLock, nP, nV, c0>>

lock_release_155 ==
  /\ At("lock_release", 155)
  /\ splhigh(157)
  /\ holding' = IF in_interrupt = 0 THEN holding \ {curthread} ELSE holding
  /\ UNCHANGED <<semVars, lockVars, aliveVars, in_interrupt, cpuVars, sleepers, panic, wokenLock, nP, nV, c0>>

\* the interrupt-context assertion left out
lock_release_157_noassert ==
  /\ At("lock_release", 157)
  /\ Goto(160)
  /\ UNCHANGED <<semVars, lockVars, aliveVars, curspl, in_interrupt, cpuVars, sleepers, panic, ghostVars>>

lock_release_157 ==
  /\ At("lock_release", 157)
  /\ assert_not_in_interrupt("lock_release", 160)
  /\ UNCHANGED <<semVars, lockVars, aliveVars, curspl, in_interrupt, cpuVars, sleepers, ghostVars>>

\* if (lock_do_i_hold(lock) == 0) return;   -- returns without splx
lock_release_160 ==
  /\ At("lock_release", 160)
  /\ IF lock_do_i_hold(curthread) = 0 THEN Pop ELSE Goto(163)
  /\ UNCHANGED <<semVars, lockVars, aliveVars, curspl, in_interrupt, cpuVars, sleepers, panic, ghostVars>>

\* the owner field left as it is
lock_release_163_keepowner ==
  /\ At("lock_release", 163)
  /\ flag' = 0
  /\ currentThread' = currentThread
  /\ Goto(165)
  /\ UNCHANGED <<semVars, aliveVars, curspl, in_interrupt, cpuVars, sleepers, panic, ghostVars>>

\* lock->flag = 0; lock->currentThread = NULL;
lock_release_163 ==
  /\ At("lock_release", 163)
  /\ flag' = 0
  /\ currentThread' = NULL
  /\ Goto(165)
  /\ UNCHANGED <<semVars, aliveVars, curspl, in_interrupt, cpuVars, sleepers, panic, ghostVars>>

\* the wakeup left out
lock_release_165_nowake ==
  /\ At("lock_release", 165)
  /\ Goto(167)
  /\ UNCHANGED <<semVars, lockVars, aliveVars, curspl, in_interrupt, cpuVars, sleepers, panic, ghostVars>>

\* the wake-one primitive used instead of thread_wakeup
lock_release_165_single ==
  /\ At("lock_release", 165)
  /\ thread_single_wakeup("lock")
  /\ Goto(167)
  /\ wokenLock' = wokenLock \cup (SleepingOn("lock") \ SleepingOn("lock")')
  /\ UNCHANGED <<semVars, lockVars, aliveVars, curspl, in_interrupt, curthread, idle, panic,
                 holding, nP, nV, c0>>

\* thread_wakeup(lock);
lock_release_165 ==
  /\ At("lock_release", 165)
  /\ thread_wakeup("lock")
  /\ Goto(167)
  /\ wokenLock' = wokenLock \cup SleepingOn("lock")
  /\ UNCHANGED <<semVars, lockVars, aliveVars, curspl, in_interrupt, curthread, idle, panic,
                 holding, nP, nV, c0>>

\* the level reset to 0 instead of restored
lock_release_167_spl0 ==
  /\ At("lock_release", 167)
  /\ curspl' = 0
  /\ Pop
  /\ UNCHANGED <<semVars, lockVars, aliveVars, in_interrupt, cpuVars, sleepers, panic, ghostVars>>

\* splx(spl); return
lock_release_167 ==
  /\ At("lock_release", 167)
  /\ curspl' = Top.spl
  /\ Pop
  /\ UNCHANGED <<semVars, lockVars, aliveVars, in_interrupt, cpuVars, sleepers, panic, ghostVars>>

----------------------------------------------------------------------------
(* Condition variable *)

\* cv_create(name): a live condition variable
cv_create == cvAlive = TRUE

\* assert(cv != NULL);
cv_destroy_207 ==
  /\ At("cv_destroy", 207)
  /\ Goto(209)
  /\ UNCHANGED <<semVars, lockVars, aliveVars, curspl, in_interrupt, cpuVars, sleepers, panic, ghostVars>>

\* kfree(cv->name); kfree(cv); return -- no look at the sleepers
cv_destroy_209 ==
  /\ At("cv_destroy", 209)
  /\ cvAlive' = FALSE
  /\ Pop
  /\ UNCHANGED <<semVars, lockVars, lockAlive, curspl, in_interrupt, cpuVars, sleepers, panic, ghostVars>>

cv_wait_217 ==
  /\ At("cv_wait", 217)
  /\ splhigh(219)
  /\ UNCHANGED <<semVars, lockVars, aliveVars, in_interrupt, cpuVars, sleepers, panic, ghostVars>>

cv_wait_219 ==
  /\ At("cv_wait", 219)
  /\ assert_not_in_interrupt("cv_wait", 223)
  /\ UNCHANGED <<semVars, lockVars, aliveVars, curspl, in_interrupt, cpuVars, sleepers, ghostVars>>

\* lock_release(lock);
cv_wait_223 ==
  /\ At("cv_wait", 223)
  /\ CallFrom(224, "lock_release", EntryLine("lock_release"))
  /\ UNCHANGED <<semVars, lockVars, aliveVars, curspl, in_interrupt, cpuVars, sleepers, panic, ghostVars>>

\* thread_sleep(cv);
cv_wait_224 ==
  /\ At("cv_wait", 224)
  /\ thread_sleep("cv", 225)
  /\ UNCHANGED <<semVars, lockVars, aliveVars, in_interrupt, panic, ghostVars>>

\* the lock not taken back
cv_wait_225_noacquire ==
  /\ At("cv_wait", 225)
  /\ Goto(227)
  /\ UNCHANGED <<semVars, lockVars, aliveVars, curspl, in_interrupt, cpuVars, sleepers, panic, ghostVars>>

\* lock_acquire(lock);
cv_wait_225 ==
  /\ At("cv_wait", 225)
  /\ CallFrom(227, "lock_acquire", EntryLine("lock_acquire"))
  /\ UNCHANGED <<semVars, lockVars, aliveVars, curspl, in_interrupt, cpuVars, sleepers, panic, ghostVars>>

\* splx(spl); return
cv_wait_227 ==
  /\ At("cv_wait", 227)
  /\ curspl' = Top.spl
  /\ Pop
  /\ UNCHANGED <<semVars, lockVars, aliveVars, in_interrupt, cpuVars, sleepers, panic, ghostVars>>

cv_signal_234 ==
  /\ At("cv_signal", 234)
  /\ splhigh(236)
  /\ UNCHANGED <<semVars, lockVars, aliveVars, in_interrupt, cpuVars, sleepers, panic, ghostVars>>

cv_signal_236 ==
  /\ At("cv_signal", 236)
  /\ assert_not_in_interrupt("cv_signal", 240)
  /\ UNCHANGED <<semVars, lockVars, aliveVars, curspl, in_interrupt, cpuVars, sleepers, ghostVars>>

\* every waiter woken instead of one
cv_signal_240_all ==
  /\ At("cv_signal", 240)
  /\ thread_wakeup("cv")
  /\ Goto(242)
  /\ UNCHANGED <<semVars, lockVars, aliveVars, curspl, in_interrupt, curthread, idle, panic, ghostVars>>

\* thread_single_wakeup(cv);
cv_signal_240 ==
  /\ At("cv_signal", 240)
  /\ thread_single_wakeup("cv")
  /\ Goto(242)
  /\ UNCHANGED <<semVars, lockVars, aliveVars, curspl, in_interrupt, curthread, idle, panic, ghostVars>>

\* splx(spl); return
cv_signal_242 ==
  /\ At("cv_signal", 242)
  /\ curspl' = Top.spl
  /\ Pop
  /\ UNCHANGED <<semVars, lockVars, aliveVars, in_interrupt, cpuVars, sleepers, panic, ghostVars>>

cv_broadcast_249 ==
  /\ At("cv_broadcast", 249)
  /\ splhigh(251)
  /\ UNCHANGED <<semVars, lockVars, aliveVars, in_interrupt, cpuVars, sleepers, panic, ghostVars>>

cv_broadcast_251 ==
  /\ At("cv_broadcast", 251)
  /\ assert_not_in_interrupt("cv_broadcast", 255)
  /\ UNCHANGED <<semVars, lockVars, aliveVars, curspl, in_interrupt, cpuVars, sleepers, ghostVars>>

\* thread_wakeup(cv);
cv_broadcast_255 ==
  /\ At("cv_broadcast", 255)
  /\ thread_wakeup("cv")
  /\ Goto(257)
  /\ UNCHANGED <<semVars, lockVars, aliveVars, curspl, in_interrupt, curthread, idle, panic, ghostVars>>

\* splx(spl); return
cv_broadcast_257 ==
  /\ At("cv_broadcast", 257)
  /\ curspl' = Top.spl
  /\ Pop
  /\ UNCHANGED <<semVars, lockVars, aliveVars, in_interrupt, cpuVars, sleepers, panic, ghostVars>>

----------------------------------------------------------------------------
(* Callers: threads at top level and interrupt handlers *)

Ops == {"P", "V", "sem_destroy", "lock_acquire", "lock_release",
        "cv_wait", "cv_signal", "cv_broadcast"}
SemOps == {"P", "V", "sem_destroy"}
IntOps == Ops \ {"sem_destroy"}

LockOps == {"lock_acquire", "lock_release", "lock_destroy"}
CvAllOps == {"cv_wait", "cv_signal", "cv_broadcast", "cv_destroy"}

InFrame(t, F) == \E i \in 1..Len(stack[t]) : stack[t][i].fn \in F
InFlightV == Cardinality({t \in Threads : InFrame(t, {"V"})})

\* calling convention: a freed semaphore is not used, sem_destroy does not
\* overlap a call in progress other than a P asleep on the semaphore, and
\* the number of V calls is bounded
CanCall(fn) ==
  /\ fn \in SemOps => semAlive /\ \A t \in Threads : ~InFrame(t, {"sem_destroy"})
  /\ fn = "V" => nV + InFlightV < MaxV
  /\ fn = "sem_destroy" =>
       \A t \in Threads : InFrame(t, SemOps) => t \in SleepingOn("sem")
  /\ fn \in LockOps \cup CvAllOps => lockAlive
  /\ fn \in CvAllOps => cvAlive
  /\ fn = "lock_destroy" =>
       \A t \in Threads : InFrame(t, LockOps \cup CvAllOps) => tstate[t] = "sleep"
  /\ fn = "cv_destroy" =>
       \A t \in Threads : InFrame(t, CvAllOps) => t \in SleepingOn("cv")

CvOps == {"cv_wait", "cv_signal", "cv_broadcast"}

\* a thread outside every primitive calls one of the operations in S; the
\* cv operations are called by the thread that holds the lock (the calling
\* convention of cv_wait, cv_signal and cv_broadcast)
CallOf(S) ==
  /\ panic = "" /\ ~idle /\ in_interrupt = 0
  /\ stack[curthread] = <<>>
  /\ \E fn \in S :
       /\ CanCall(fn)
       /\ fn \in CvOps => lock_do_i_hold(curthread) = 1
       /\ Push(fn, EntryLine(fn))
  /\ UNCHANGED <<semVars, lockVars, aliveVars, curspl, in_interrupt, cpuVars, sleepers, panic, ghostVars>>

\* an interrupt arrives at level 0; its handler calls one operation of S
InterruptOf(S) ==
  /\ panic = "" /\ InterruptsOn
  /\ \E fn \in S :
       /\ CanCall(fn)
       /\ stack' = [stack EXCEPT ![curthread] =
                      @ \o <<[fn |-> "interrupt", pc |-> 0, spl |-> curspl],
                             Frame(fn, EntryLine(fn))>>]
  /\ in_interrupt' = 1
  /\ curspl' = SplHigh
  /\ UNCHANGED <<semVars, lockVars, aliveVars, cpuVars, sleepers, panic, ghostVars>>

\* the handler returns to the interrupted code
InterruptReturn ==
  /\ At("interrupt", 0)
  /\ in_interrupt' = 0
  /\ curspl' = Top.spl
  /\ Pop
  /\ UNCHANGED <<semVars, lockVars, aliveVars, cpuVars, sleepers, panic, ghostVars>>

----------------------------------------------------------------------------

Init ==
  /\ c0 \in 0..MaxC0
  /\ sem_create(c0)
  /\ lock_create
  /\ curspl = 0
  /\ in_interrupt = 0
  /\ curthread = 1
  /\ idle = FALSE
  /\ tstate = [t \in Threads |-> IF t = 1 THEN "run" ELSE "yield"]
  /\ sleepers = [a \in Channels |-> <<>>]
  /\ stack = [t \in Threads |-> <<>>]
  /\ panic = ""
  /\ cv_create
  /\ holding = {}
  /\ wokenLock = {}
  /\ nP = 0
  /\ nV = 0

SemSteps ==
  \/ sem_destroy_45 \/ sem_destroy_46 \/ sem_destroy_47 \/ sem_destroy_58
  \/ P_74 \/ P_76 \/ P_77 \/ P_80 \/ P_82
  \/ V_90 \/ V_91 \/ V_93 \/ V_94

LockSteps ==
  \/ lock_acquire_136 \/ lock_acquire_138 \/ lock_acquire_141
  \/ lock_acquire_145 \/ lock_acquire_148
  \/ lock_release_155 \/ lock_release_157 \/ lock_release_160
  \/ lock_release_163 \/ lock_release_165 \/ lock_release_167

CvSteps ==
  \/ cv_wait_217 \/ cv_wait_219 \/ cv_wait_223 \/ cv_wait_224
  \/ cv_wait_225 \/ cv_wait_227
  \/ cv_signal_234 \/ cv_signal_236 \/ cv_signal_240 \/ cv_signal_242
  \/ cv_broadcast_249 \/ cv_broadcast_251 \/ cv_broadcast_255 \/ cv_broadcast_257

\* threads and handlers that use the semaphore only
CallSem == CallOf(SemOps)
InterruptSem == InterruptOf({"P", "V"})
NextSem ==
  \/ CallSem \/ InterruptSem \/ InterruptReturn \/ Preempt \/ Dispatch
  \/ SemSteps

SpecSem == Init /\ [][NextSem]_vars

\* threads that use the lock and the condition variable only
CallLock == CallOf(Ops \ SemOps)
InterruptLock == InterruptOf({"cv_signal"})
NextLock ==
  \/ CallLock \/ InterruptLock \/ Preempt
  \/ LockSteps \/ CvSteps

InitLock == Init /\ c0 = 0

SpecLock == InitLock /\ [][NextLock]_vars

\* interrupt handlers call every operation while threads block on the
\* semaphore and take the lock
CallInt == CallOf({"P", "lock_acquire"})
InterruptInt == InterruptOf(IntOps)
NextInt ==
  \/ CallInt \/ InterruptInt \/ InterruptReturn \/ Preempt \/ Dispatch
  \/ P_74 \/ P_76 \/ P_77 \/ P_80 \/ P_82
  \/ V_90 \/ V_91 \/ V_93 \/ V_94
  \/ lock_acquire_136 \/ lock_acquire_138 \/ lock_acquire_141
  \/ lock_acquire_145 \/ lock_acquire_148
  \/ lock_release_155 \/ lock_release_157
  \/ cv_wait_217 \/ cv_wait_219
  \/ cv_signal_234 \/ cv_signal_236
  \/ cv_broadcast_249 \/ cv_broadcast_251

SpecInt == Init /\ [][NextInt]_vars

\* The semaphore under the scheduler's fairness.  The CPU runs the next
\* statement of the thread it is on, a handler returns, the idle CPU picks
\* up a runnable thread, and hardclock's round robin gives every runnable
\* thread the CPU again and again while interrupts are taken.  Handlers call
\* V only: a P from a handler halts the kernel at line 74.
CallPV == CallOf({"P", "V"})
InterruptV == InterruptOf({"V"})
PVSteps ==
  \/ P_74 \/ P_76 \/ P_77 \/ P_80 \/ P_82
  \/ V_90 \/ V_91 \/ V_93 \/ V_94
NextSemFair ==
  \/ CallPV \/ InterruptV \/ InterruptReturn \/ Preempt \/ Dispatch
  \/ PVSteps

PreemptTo(t) == Preempt /\ curthread' = t

FairSem ==
  /\ WF_vars(PVSteps)
  /\ WF_vars(InterruptReturn)
  /\ WF_vars(Dispatch)
  /\ \A t \in Threads : SF_vars(PreemptTo(t))

SpecSemFair == Init /\ [][NextSemFair]_vars /\ FairSem

\* The lock and the condition variable under the same fairness, without
\* interrupt handlers.  A running thread that is outside the primitives goes
\* on to its next call: no thread halts with the CPU.
NextLockFair ==
  \/ CallLock \/ Preempt
  \/ LockSteps \/ CvSteps

FairLock ==
  /\ WF_vars(LockSteps \/ CvSteps)
  /\ WF_vars(CallLock)
  /\ \A t \in Threads : SF_vars(PreemptTo(t))

SpecLockFair == InitLock /\ [][NextLockFair]_vars /\ FairLock

\* threads that use the semaphore and the lock side by side
CallBoth == CallOf({"P", "V", "lock_acquire", "lock_release"})
NextBoth ==
  \/ CallBoth \/ Preempt
  \/ PVSteps \/ LockSteps

SpecBoth == InitLock /\ [][NextBoth]_vars

\* threads that also destroy the primitives, with or without sleepers
CallDestroy ==
  CallOf({"P", "sem_destroy", "lock_acquire", "lock_destroy", "cv_wait", "cv_destroy"})
NextDestroy ==
  \/ CallDestroy \/ Preempt
  \/ sem_destroy_45 \/ sem_destroy_46 \/ sem_destroy_47 \/ sem_destroy_58
  \/ P_74 \/ P_76 \/ P_77 \/ P_80 \/ P_82
  \/ LockSteps \/ lock_destroy_126 \/ lock_destroy_128
  \/ cv_wait_217 \/ cv_wait_219 \/ cv_wait_223 \/ cv_wait_224
  \/ cv_destroy_207 \/ cv_destroy_209

SpecDestroy == Init /\ [][NextDestroy]_vars

TypeOK ==
  /\ count \in Int /\ semAlive \in BOOLEAN
  /\ flag \in {0, 1} /\ currentThread \in Threads \cup {NULL}
  /\ curspl \in {0, SplHigh} /\ in_interrupt \in {0, 1}
  /\ curthread \in Threads /\ idle \in BOOLEAN
  /\ tstate \in [Threads -> {"run", "sleep", "ready", "yield"}]
  /\ lockAlive \in BOOLEAN /\ cvAlive \in BOOLEAN
  /\ holding \subseteq Threads /\ wokenLock \subseteq Threads

----------------------------------------------------------------------------
(* Properties *)

\* the running thread executes the statement at `line` of fn
Step(fn, line) == At(fn, line) /\ stack' # stack

\* C1: mutual exclusion -- at most one thread has returned from lock_acquire
\* without having called lock_release since
C1_MutualExclusion == Cardinality(holding) <= 1

\* one thread is in its critical section while another sleeps on the lock
C1_Witness ==
  \E t \in Threads : holding = {t} /\ SleepingOn("lock") \ {t} # {}

\* C2: count is never negative, and the completed P calls never exceed the
\* initial count plus the completed V calls
C2_SemaphoreBound == count >= 0 /\ nP <= c0 + nV

\* every permit has been consumed and a further P is blocked
C2_Witness ==
  /\ nV > 0 /\ nP = c0 + nV /\ count = 0
  /\ SleepingOn("sem") # {}

\* thread t is in cv_wait between its call of lock_release and its thread_sleep
InCvWaitGap(t) ==
  /\ stack[t] # <<>>
  /\ stack[t][1].fn = "cv_wait" /\ stack[t][1].pc = 224

\* C3: while a thread is in cv_wait between releasing the lock and being
\* queued on the cv it keeps the CPU with interrupts disabled, so a
\* cv_signal or cv_broadcast run by another thread finds every waiter that
\* has released the lock queued on the cv, and wakes the first (signal)
C3_NoLostWakeup ==
  /\ [](\A t \in Threads : InCvWaitGap(t) =>
          /\ curthread = t /\ ~idle
          /\ curspl = SplHigh /\ in_interrupt = 0)
  /\ [][(Step("cv_signal", 240) \/ Step("cv_broadcast", 255)) =>
          /\ \A t \in Threads \ {curthread} : ~InCvWaitGap(t)
          /\ sleepers["cv"] # <<>> => tstate'[Head(sleepers["cv"])] = "ready"]_vars

\* a waiter has released the lock, has woken a contender for it, and is
\* about to go to sleep on the cv
C3_Witness ==
  \E t \in Threads :
    /\ InCvWaitGap(t) /\ Depth(t) = 1
    /\ flag = 0
    /\ \E u \in Threads \ {t} : tstate[u] = "ready"

\* threads woken from a sleep inside P and not yet run
WokenInP == {t \in Threads : tstate[t] = "ready" /\ InFrame(t, {"P"})}

\* C4 as stated: V wakes exactly one of the k >= 1 threads queued on the
\* semaphore and leaves the other k-1 queued
C4_Original ==
  [][Step("V", 93) /\ sleepers["sem"] # <<>> =>
       Len(sleepers'["sem"]) = Len(sleepers["sem"]) - 1]_vars

\* C4 amended: V increments count and then wakes every thread queued on the
\* semaphore; with none queued it wakes nobody; V never gives up the CPU
C4_VWakesAll ==
  /\ [][Step("V", 93) =>
          /\ count >= 1
          /\ sleepers'["sem"] = <<>>
          /\ \A t \in Threads :
               tstate'[t] = IF t \in SleepingOn("sem") THEN "ready" ELSE tstate[t]
          /\ curthread' = curthread]_vars
  /\ [](\A t \in Threads :
          (stack[t] # <<>> /\ stack[t][Len(stack[t])].fn = "V") =>
             curthread = t /\ Running)

\* a V has just woken two threads that were blocked in P
C4_Witness ==
  /\ At("V", 94)
  /\ Cardinality(WokenInP) >= 2
  /\ sleepers["sem"] = <<>>

\* C5 as stated: lock_release by a thread that is not the owner changes
\* nothing: held flag, owner, wait queues, thread states, no fatal error, and
\* the interrupt level is the one the caller had
C5_NonOwnerReleaseNoOp ==
  [][(Step("lock_release", 160) /\ lock_do_i_hold(curthread) = 0) =>
       /\ flag' = flag /\ currentThread' = currentThread
       /\ sleepers' = sleepers /\ tstate' = tstate
       /\ panic' = ""
       /\ curspl' = Top.spl]_vars

\* C6 as stated: every operation returns with the interrupt level its caller
\* had at entry, on every exit path
C6_SplRestoredOnExit ==
  [][(/\ Running /\ stack[curthread] # <<>>
      /\ Top.fn \in Ops
      /\ Len(stack'[curthread]) < Len(stack[curthread])) =>
       curspl' = Top.spl]_vars

Blocking == {"P", "lock_acquire", "cv_wait"}
AssertsNoInterrupt == Blocking \cup {"lock_release", "cv_signal", "cv_broadcast"}
AssertLine(fn) ==
  CASE fn = "P" -> 74
    [] fn = "lock_acquire" -> 138
    [] fn = "lock_release" -> 157
    [] fn = "cv_wait" -> 219
    [] fn = "cv_signal" -> 236
    [] fn = "cv_broadcast" -> 251

\* C7 as stated: in interrupt context only the blocking operations are fatal
C7_Original ==
  (in_interrupt = 1 /\ panic # "") => panic \in Blocking

\* C7 amended: called from interrupt context, P, lock_acquire, cv_wait,
\* lock_release, cv_signal and cv_broadcast never get past their
\* assert(in_interrupt == 0) and are fatal there; V is never fatal
C7_InterruptPolicy ==
  in_interrupt = 1 =>
    /\ Top.fn \in AssertsNoInterrupt =>
         /\ Top.pc <= AssertLine(Top.fn)
         /\ panic \in {"", Top.fn}
    /\ Top.fn \in {"V", "interrupt"} => panic = ""

\* a handler that interrupted the lock's owner called lock_release and the
\* kernel stopped on the assertion
C7_Witness ==
  /\ in_interrupt = 1 /\ panic = "lock_release"
  /\ flag = 1 /\ currentThread = curthread

\* thread t holds the lock and is inside a further lock_acquire that has not
\* left its wait loop
Reentered(t) ==
  /\ currentThread = t
  /\ \E i \in 1..Len(stack[t]) :
       stack[t][i].fn = "lock_acquire" /\ stack[t][i].pc \in {136, 138, 141}

\* C8: a thread that holds the lock and calls lock_acquire again never
\* leaves that call: once inside it as owner, it stays so in every step
C8_NotReentrant ==
  [][\A t \in Threads : Reentered(t) => Reentered(t)']_vars

\* the owner is asleep on its own lock
C8_Witness ==
  \E t \in Threads :
    Reentered(t) /\ t \in SleepingOn("lock") /\ t \in holding

\* a thread leaves the cv queue only in the wakeup of cv_signal or cv_broadcast
C9_LeavesOnlyByWake ==
  [][\A t \in Threads :
       (t \in SleepingOn("cv") /\ t \notin SleepingOn("cv")') =>
          (At("cv_signal", 240) \/ At("cv_broadcast", 255))]_vars

\* cv_wait returns to a caller that is the recorded owner
C9_ReturnsAsOwner ==
  [][Step("cv_wait", 227) => (flag = 1 /\ currentThread = curthread)]_vars

\* C9 as stated: the lock is unheld while the caller is queued on the cv,
\* the caller leaves the queue only through cv_signal or cv_broadcast, and
\* cv_wait returns with the caller as owner
C9_Original ==
  /\ [](\A t \in Threads : t \in SleepingOn("cv") => flag = 0)
  /\ C9_LeavesOnlyByWake
  /\ C9_ReturnsAsOwner

\* C9 amended: the lock is not held by the caller while the caller is queued
\* on the cv (another thread may hold it), the caller leaves the queue only
\* through cv_signal or cv_broadcast, and cv_wait returns with the caller as
\* owner
C9_WaitCycle ==
  /\ [](\A t \in Threads : t \in SleepingOn("cv") => currentThread # t)
  /\ C9_LeavesOnlyByWake
  /\ C9_ReturnsAsOwner

\* a woken waiter has taken the lock back and is about to return from cv_wait
C9_Witness ==
  /\ At("cv_wait", 227)
  /\ currentThread = curthread /\ flag = 1

\* C10: cv_signal wakes exactly the first queued thread, or changes nothing
\* when none is queued; cv_broadcast wakes all; neither changes the lock's
\* flag or owner; cv_wait always goes to sleep, whatever signals came before
C10_SignalBroadcast ==
  /\ [][Step("cv_signal", 240) =>
          IF sleepers["cv"] = <<>>
            THEN UNCHANGED <<count, semAlive, flag, currentThread, aliveVars, curspl,
                             in_interrupt, curthread, idle, tstate, sleepers, panic>>
            ELSE /\ sleepers'["cv"] = Tail(sleepers["cv"])
                 /\ tstate' = [tstate EXCEPT ![Head(sleepers["cv"])] = "ready"]]_vars
  /\ [][Step("cv_broadcast", 255) =>
          /\ sleepers'["cv"] = <<>>
          /\ \A t \in Threads :
               tstate'[t] = IF t \in SleepingOn("cv") THEN "ready" ELSE tstate[t]]_vars
  /\ [][(Running /\ stack[curthread] # <<>> /\ Top.fn \in {"cv_signal", "cv_broadcast"}) =>
          UNCHANGED <<flag, currentThread>>]_vars
  /\ [][Step("cv_wait", 224) => curthread \in SleepingOn("cv")']_vars

\* a cv_signal has woken one of two waiters and left the other queued
C10_Witness ==
  /\ At("cv_signal", 242)
  /\ Len(sleepers["cv"]) = 1
  /\ \E t \in Threads :
       /\ tstate[t] = "ready"
       /\ stack[t] = <<[fn |-> "cv_wait", pc |-> 225, spl |-> stack[t][1].spl]>>

\* C11: each of the three destroy operations frees its primitive when no
\* thread is queued on it, and with a thread queued fails an assertion and
\* leaves the primitive in place
C11_DestroyChecksWaiters ==
  /\ [][(At("sem_destroy", 46) /\ vars' # vars) =>
          IF sleepers["sem"] = <<>> THEN panic' = "" ELSE panic' # "" /\ semAlive']_vars
  /\ [][(At("lock_destroy", 126) /\ vars' # vars) =>
          IF sleepers["lock"] = <<>> THEN panic' = "" ELSE panic' # "" /\ lockAlive']_vars
  /\ [][(At("cv_destroy", 207) /\ vars' # vars) =>
          IF sleepers["cv"] = <<>> THEN panic' = "" ELSE panic' # "" /\ cvAlive']_vars
  /\ [][(semAlive /\ ~semAlive') => sleepers["sem"] = <<>>]_vars
  /\ [][(lockAlive /\ ~lockAlive') => sleepers["lock"] = <<>>]_vars
  /\ [][(cvAlive /\ ~cvAlive') => sleepers["cv"] = <<>>]_vars
  /\ [][Step("sem_destroy", 58) => ~semAlive']_vars
  /\ [][Step("lock_destroy", 128) => ~lockAlive']_vars
  /\ [][Step("cv_destroy", 209) => ~cvAlive']_vars

\* the semaphore's part of C11 alone
C11_SemOnly ==
  /\ [][(At("sem_destroy", 46) /\ vars' # vars) =>
          IF sleepers["sem"] = <<>> THEN panic' = "" ELSE panic' # "" /\ semAlive']_vars
  /\ [][(semAlive /\ ~semAlive') => sleepers["sem"] = <<>>]_vars
  /\ [][Step("sem_destroy", 58) => ~semAlive']_vars

\* C12: the lock is freed only in states where its flag is clear
C12_DestroyedOnlyUnheld == [][(lockAlive /\ ~lockAlive') => flag = 0]_vars

\* C13 as stated: after a V that finds threads blocked in P, one of those
\* blocked threads eventually returns from its P
C13_Original ==
  \A S \in (SUBSET Threads) \ {{}} :
    (At("V", 93) /\ SleepingOn("sem") = S) ~> (\E t \in S : ~InFrame(t, {"P"}))

\* C13 amended: after a V that finds threads blocked in P, a P eventually
\* completes -- that of a blocked thread, or one called after the V that takes
\* the permit first; with c0 = 0 and one V and one P completed, count is 0
C13_SemaphoreProgress ==
  /\ \A n \in 0..(MaxC0 + MaxV) :
       (At("V", 93) /\ sleepers["sem"] # <<>> /\ nP = n) ~> (nP > n)
  /\ []((c0 = 0 /\ nV = 1 /\ nP = 1 /\ InFlightV = 0) => count = 0)

\* the one thread blocked in P has been woken by the one V and has returned,
\* which leaves count at 0
C13_Witness ==
  /\ c0 = 0 /\ nV = 1 /\ nP = 1 /\ count = 0
  /\ \A t \in Threads : stack[t] = <<>>

\* C14: after the owner's lock_release has found threads blocked in
\* lock_acquire, some thread eventually returns from lock_acquire as the new
\* owner; at that return lock_do_i_hold is 1 for it and 0 for every other thread
C14_LockHandoff ==
  /\ (At("lock_release", 165) /\ sleepers["lock"] # <<>>) ~> (holding # {})
  /\ [][Step("lock_acquire", 148) =>
          \A t \in Threads : lock_do_i_hold(t) = IF t = curthread THEN 1 ELSE 0]_vars

\* thread t has been signalled out of its sleep in cv_wait and the lock is free
SignalledIn(t) ==
  /\ Len(stack[t]) = 1
  /\ stack[t][1].fn = "cv_wait" /\ stack[t][1].pc = 225
  /\ tstate[t] = "ready"
  /\ flag = 0

\* thread t is back from its call and owns the lock
BackAsOwner(t) == stack[t] = <<>> /\ currentThread = t /\ flag = 1

\* C15: a thread that was signalled out of cv_wait, once the signaller has
\* released the lock, eventually returns from cv_wait as the owner -- at the
\* latest after whichever other thread took the lock in between
C15_MonitorRoundTrip ==
  \A t \in Threads :
    SignalledIn(t) ~> (BackAsOwner(t) \/ (flag = 1 /\ currentThread # t))

\* thread t, woken from its sleep inside P, gets the CPU back: its next
\* statement is the re-check of the loop condition at line 77
ResumesInP(t) == tstate[t] = "ready" /\ InFrame(t, {"P"}) /\ tstate'[t] = "run"

\* C16 as stated: every thread woken from its sleep inside P finds count > 0
\* at its re-check
C16_Original == [][\A t \in Threads : ResumesInP(t) => count' > 0]_vars

\* C16 amended: count > 0 when V wakes the sleepers, only a P that has passed
\* its wait loop lowers count, and a thread that finds count = 0 at its
\* (re-)check sleeps again on the semaphore
C16_IncrementBeforeWake ==
  /\ [][Step("V", 93) => count > 0]_vars
  /\ [][count' < count => (Step("P", 80) /\ count > 0)]_vars
  /\ [][(At("P", 77) /\ vars' # vars) =>
          IF count = 0
            THEN curthread \in SleepingOn("sem")'
            ELSE stack'[curthread][Len(stack[curthread])].pc = 80]_vars
  /\ [][\A t \in Threads : (ResumesInP(t) /\ count' = 0) => nP' > 0]_vars

\* one woken thread has taken the only permit while another woken thread has
\* still to re-check
C16_Witness ==
  /\ At("P", 82) /\ count = 0
  /\ WokenInP # {}

\* threads that have left the wait loop of lock_acquire and not returned yet
PastLoop ==
  {t \in Threads : \E i \in 1..Len(stack[t]) :
     stack[t][i].fn = "lock_acquire" /\ stack[t][i].pc \in {145, 148}}

\* C17 as stated: while threads woken by lock_release have still to re-check
\* the flag, the thread that leaves the wait loop to become the new owner is
\* one of them
C17_Original ==
  [][(At("lock_acquire", 141) /\ vars' # vars /\ flag = 0 /\ wokenLock # {}) =>
       curthread \in wokenLock]_vars

\* C17 amended: lock_release clears flag and owner, then wakes every thread
\* queued on the lock; a thread re-checking the flag sleeps again on the lock
\* if it is set and goes on to become the owner if it is clear; at most one
\* thread at a time is past the wait loop
C17_ReleaseWakesAll ==
  /\ [][Step("lock_release", 163) =>
          /\ flag' = 0 /\ currentThread' = NULL
          /\ sleepers' = sleepers /\ tstate' = tstate]_vars
  /\ [][Step("lock_release", 165) =>
          /\ flag = 0 /\ currentThread = NULL
          /\ sleepers'["lock"] = <<>>
          /\ \A t \in Threads :
               tstate'[t] = IF t \in SleepingOn("lock") THEN "ready" ELSE tstate[t]]_vars
  /\ [][(At("lock_acquire", 141) /\ vars' # vars) =>
          IF flag # 0
            THEN curthread \in SleepingOn("lock")'
            ELSE stack'[curthread][Len(stack[curthread])].pc = 145]_vars
  /\ [](Cardinality(PastLoop) <= 1)
  /\ [](\A t \in wokenLock : t \notin PastLoop /\ tstate[t] \in {"ready", "run"})

\* a lock_release has just woken two threads that were queued on the lock
C17_Witness ==
  /\ At("lock_release", 167)
  /\ Cardinality(wokenLock) >= 2
  /\ flag = 0 /\ sleepers["lock"] = <<>>

\* C18: a fresh lock has flag clear and no owner; with interrupts enabled the
\* owner field names a thread exactly when flag is set; flag goes from set to
\* clear only in a lock_release run by the recorded owner; lock_do_i_hold
\* answers 1 exactly for the recorded owner of a held lock, and every thread
\* between its lock_acquire and its lock_release is that owner
C18_OwnerHeldConsistent ==
  /\ (flag = 0 /\ currentThread = NULL)
  /\ [](curspl = 0 => ((currentThread \in Threads) <=> (flag = 1)))
  /\ [](curspl = 0 => ((currentThread = NULL) <=> (flag = 0)))
  /\ [][(flag = 1 /\ flag' = 0) =>
          (Step("lock_release", 163) /\ currentThread = curthread)]_vars
  /\ [](curspl = 0 =>
          \A t \in Threads :
            lock_do_i_hold(t) = IF flag = 1 /\ currentThread = t THEN 1 ELSE 0)
  /\ [](\A t \in holding : lock_do_i_hold(t) = 1)

\* with interrupts enabled, the running thread is outside the lock's
\* functions and is not the owner of the lock, which another thread holds
C18_Witness ==
  /\ curspl = 0 /\ stack[curthread] = <<>>
  /\ flag = 1 /\ currentThread \in Threads \ {curthread}
  /\ lock_do_i_hold(curthread) = 0 /\ lock_do_i_hold(currentThread) = 1

\* threads whose P has taken its permit and not returned yet
Decremented ==
  {t \in Threads : \E i \in 1..Len(stack[t]) :
     stack[t][i].fn = "P" /\ stack[t][i].pc = 82}

\* threads on whose stack a V has added its permit and not returned yet
Incremented ==
  {t \in Threads : \E i \in 1..Len(stack[t]) :
     stack[t][i].fn = "V" /\ stack[t][i].pc \in {93, 94}}

\* no handler runs and no thread is between the splhigh and the splx of P or
\* V, other than asleep in the wait loop of P
NoSemSection ==
  /\ in_interrupt = 0
  /\ \A t \in Threads : InFrame(t, {"P", "V"}) => t \in SleepingOn("sem")

\* C19: permit conservation -- count is the initial count plus the V calls
\* that have added their permit minus the P calls that have taken theirs, so
\* that count = c0 + completed V - completed P whenever no thread is inside
\* P's or V's interrupt-disabled section; the assertions count > 0 of P
\* (line 80) and V (line 92) never fail
C19_PermitConservation ==
  /\ count = c0 + nV + Cardinality(Incremented) - nP - Cardinality(Decremented)
  /\ NoSemSection => count = c0 + nV - nP
  /\ panic # "V"
  /\ panic = "P" => in_interrupt = 1

\* two V and two P have completed and a further P has found count = 0 and
\* sleeps, while the running thread is outside the semaphore's functions
C19_Witness ==
  /\ nV >= 2 /\ nP >= 2
  /\ SleepingOn("sem") # {}
  /\ curspl = 0 /\ stack[curthread] = <<>> /\ ~idle

\* C20: no stranded sleeper -- with interrupts enabled, a thread is asleep on
\* the semaphore only while count is 0, and asleep on the lock only while the
\* lock's flag is set
C20_NoStrandedSleeper ==
  (curspl = 0 /\ in_interrupt = 0) =>
    /\ SleepingOn("sem") # {} => count = 0
    /\ SleepingOn("lock") # {} => flag = 1

\* with interrupts enabled, one thread sleeps on the semaphore after a V and a
\* P have completed, and another sleeps on the lock
C20_Witness ==
  /\ curspl = 0 /\ ~idle
  /\ SleepingOn("sem") # {} /\ SleepingOn("lock") # {}
  /\ nV >= 1 /\ nP >= 1

====
